---- MODULE Spec2Model ----
(***************************************************************************)
(* Khmer NER service (ml-khmer-ner/app/main.py) and the completion loop of *)
(* the Khmer GRU language-model service (ml-khmer-lm/app/main.py).         *)
(*                                                                         *)
(* Strings are sequences of one-character strings; the characters that     *)
(* matter to the code are named: " " (whitespace), "ZWSP" (U+200B), "BOM"  *)
(* (U+FEFF), "e" followed by "ACUTE" (U+0301) which NFC composes into      *)
(* "E_ACUTE" (U+00E9).  Character offsets are 0-based and half-open, as    *)
(* re.Match.start()/end() give them.                                       *)
(***************************************************************************)
EXTENDS Integers, Sequences, FiniteSets, TLC

VARIABLES
    \* ml-khmer-ner: the module globals, and the requests' responses
    pc,          \* the statement of load_artifacts startup() is at, or "done"
    cfg,         \* load_artifacts' cfg (the dimensions the model is built with)
    id2label,    \* global id2label
    char2idx,    \* global char2idx
    model,       \* global model: None, or which parameters it holds
    failedAt,    \* the statement whose exception startup() swallowed, or "none"
    resp,        \* the response to the last POST /api/ner
    healthResp,  \* the response to the last GET /health
    \* decode_entities: its arguments and its return value
    dIn, dOut,
    \* encode_word / true_char_len: the word and vocabulary, and the result
    eWord, eOut,
    \* build_char_vocab: the word list and the result, of a first and a second run
    vWords, vVocab, vWords2, vVocab2,
    \* ml-khmer-lm complete(): position, sp.encode(s), max_new_tokens, x, h,
    \* generated, and the tokens model(x) was conditioned on at each step
    lmPc, lmPrompt, lmMax, lmX, lmH, lmGenerated, lmCtx

svcVars == <<pc, cfg, id2label, char2idx, model, failedAt, resp, healthResp>>
decVars == <<dIn, dOut>>
encVars == <<eWord, eOut>>
vocVars == <<vWords, vVocab, vWords2, vVocab2>>
lmVars == <<lmPc, lmPrompt, lmMax, lmX, lmH, lmGenerated, lmCtx>>
vars == <<svcVars, decVars, encVars, vocVars, lmVars>>

(***************************************************************************)
(* Bounds of the model.                                                    *)
(***************************************************************************)
MaxTextLen == 5

(***************************************************************************)
(* Python's None.                                                          *)
(***************************************************************************)
None == [none |-> TRUE]

PAD == "<PAD>"
UNK == "<UNK>"
MAX_WORD_LEN == 24

Max(a, b) == IF a >= b THEN a ELSE b
Min(a, b) == IF a <= b THEN a ELSE b

RECURSIVE SumSeq(_)
SumSeq(s) == IF s = <<>> THEN 0 ELSE Head(s) + SumSeq(Tail(s))

\* All sequences over S of length at most n.
SeqsUpTo(S, n) == UNION {[1..k -> S] : k \in 0..n}

(***************************************************************************)
(* Text normalisation and tokenisation.                                    *)
(***************************************************************************)
\* unicodedata.normalize("NFC", s) on the modelled characters: the pair
\* e + U+0301 composes, every other character is already composed.
RECURSIVE NFC(_)
NFC(s) ==
    IF s = <<>> THEN <<>>
    ELSE IF Len(s) >= 2 /\ s[1] = "e" /\ s[2] = "ACUTE"
         THEN <<"E_ACUTE">> \o NFC(SubSeq(s, 3, Len(s)))
         ELSE <<s[1]>> \o NFC(Tail(s))

\* str.replace(ch, ""): every occurrence of ch removed.
RECURSIVE Remove(_, _)
Remove(s, ch) ==
    IF s = <<>> THEN <<>>
    ELSE IF Head(s) = ch THEN Remove(Tail(s), ch)
         ELSE <<Head(s)>> \o Remove(Tail(s), ch)

\* normalize_text without .replace("\u200b", "").
normalize_text_keep_zwsp(s) == Remove(NFC(s), "BOM")

normalize_text(s) == Remove(Remove(NFC(s), "ZWSP"), "BOM")

\* str.isspace() / the complement of regex \S on the modelled characters.
IsSpace(ch) == ch = " "

\* End (exclusive, 0-based) of the maximal run of non-whitespace that
\* starts at 1-based position i.
RECURSIVE RunEnd(_, _)
RunEnd(text, i) ==
    IF i > Len(text) \/ IsSpace(text[i]) THEN i - 1 ELSE RunEnd(text, i + 1)

\* re.finditer(r"\S+", text) from 1-based position i on: the matches as
\* records [token, span], span = <<match.start(), match.end()>>.
RECURSIVE FindIter(_, _)
FindIter(text, i) ==
    IF i > Len(text) THEN <<>>
    ELSE IF IsSpace(text[i]) THEN FindIter(text, i + 1)
         ELSE LET e == RunEnd(text, i)
              IN  <<[token |-> SubSeq(text, i, e), span |-> <<i - 1, e>>]>>
                  \o FindIter(text, e + 1)

ws_tokens_with_spans(text) ==
    LET ms == FindIter(text, 1)
    IN  [tokens |-> [k \in 1..Len(ms) |-> ms[k].token],
         spans  |-> [k \in 1..Len(ms) |-> ms[k].span]]

(***************************************************************************)
(* decode_entities: BIO labels to entity spans.                            *)
(***************************************************************************)
\* sum(scores) / max(len(scores), 1), kept as the exact fraction num/den.
MeanScore(scores) == [num |-> SumSeq(scores), den |-> Max(Len(scores), 1)]

\* The nested flush(): emits the accumulating entity, if any, and resets it.
flush_keep_current(st) ==
    IF st.current = None THEN st
    ELSE [st EXCEPT !.entities = Append(@,
                        [text  |-> st.current.text,
                         label |-> st.current.label,
                         score |-> MeanScore(st.current.scores),
                         start |-> st.current.start,
                         end   |-> st.current.end])]

flush(st) ==
    IF st.current = None THEN st
    ELSE [entities |-> Append(st.entities,
                        [text  |-> st.current.text,
                         label |-> st.current.label,
                         score |-> MeanScore(st.current.scores),
                         start |-> st.current.start,
                         end   |-> st.current.end]),
          current  |-> None]

\* 1-based position of the first "-" of label, 0 when there is none.
RECURSIVE DashAt(_, _)
DashAt(label, i) ==
    IF i > Len(label) THEN 0
    ELSE IF label[i] = "-" THEN i ELSE DashAt(label, i + 1)

\* prefix, tag = (label.split("-", 1) + [""])[:2] if "-" in label
\*               else ("B", label)
split_label(label) ==
    LET d == DashAt(label, 1)
    IN  IF d = 0 THEN [prefix |-> <<"B">>, tag |-> label]
        ELSE [prefix |-> SubSeq(label, 1, d - 1),
              tag    |-> SubSeq(label, d + 1, Len(label))]

\* The condition of line 191 with "or prefix == B" left out.
starts_new_no_b(current, prefix, tag) ==
    current = None \/ current.label # tag

\* current is None or prefix == "B" or current["label"] != tag
starts_new(current, prefix, tag) ==
    current = None \/ prefix = <<"B">> \/ current.label # tag

\* One iteration of the for loop over zip(tokens, spans, labels, scores).
decode_step(st, token, span, label, score) ==
    IF label = <<"O">> THEN flush(st)
    ELSE LET pt == split_label(label)
         IN  IF starts_new(st.current, pt.prefix, pt.tag)
             THEN [entities |-> flush(st).entities,
                   current  |-> [text   |-> token,
                                 label  |-> pt.tag,
                                 scores |-> <<score>>,
                                 start  |-> span[1],
                                 end    |-> span[2]]]
             ELSE [st EXCEPT !.current.text = @ \o <<" ">> \o token,
                             !.current.scores = Append(@, score),
                             !.current.end = span[2]]

\* The state (entities, current) after the first n iterations of the loop.
RECURSIVE decode_loop(_, _, _, _, _)
decode_loop(tokens, spans, labels, scores, n) ==
    IF n = 0 THEN [entities |-> <<>>, current |-> None]
    ELSE decode_step(decode_loop(tokens, spans, labels, scores, n - 1),
                     tokens[n], spans[n], labels[n], scores[n])

\* zip() stops at the shortest of its arguments.
ZipLen(tokens, spans, labels, scores) ==
    Min(Min(Len(tokens), Len(spans)), Min(Len(labels), Len(scores)))

\* decode_entities without the flush() that follows the loop.
decode_entities_no_final_flush(tokens, spans, labels, scores) ==
    decode_loop(tokens, spans, labels, scores,
                ZipLen(tokens, spans, labels, scores)).entities

decode_entities(tokens, spans, labels, scores) ==
    flush(decode_loop(tokens, spans, labels, scores,
                      ZipLen(tokens, spans, labels, scores))).entities

(***************************************************************************)
(* Inputs of decode_entities: the tokens and spans of a text, any label    *)
(* and any score (in percent) per token.                                   *)
(***************************************************************************)
DecChars == {" ", "a"}
DecTexts == SeqsUpTo(DecChars, MaxTextLen)
DecLabels == { <<"O">>,
               <<"B", "-", "P">>, <<"I", "-", "P">>,
               <<"B", "-", "L">>, <<"I", "-", "L">>,
               <<"P">>, <<"X", "-", "P">>, <<"-", "P">> }
DecScores == {60, 90}

InitDec == dIn = None /\ dOut = None

Decode ==
    /\ dIn = None
    /\ UNCHANGED <<svcVars, encVars, vocVars, lmVars>>
    /\ \E text \in DecTexts :
        LET ts == ws_tokens_with_spans(text)
            n  == Len(ts.tokens)
        IN  \E labels \in [1..n -> DecLabels], scores \in [1..n -> DecScores] :
                /\ dIn' = [text |-> text, tokens |-> ts.tokens, spans |-> ts.spans,
                           labels |-> labels, scores |-> scores]
                /\ dOut' = [entities |-> decode_entities(ts.tokens, ts.spans, labels, scores)]

(***************************************************************************)
(* build_char_vocab, encode_word, true_char_len.                           *)
(***************************************************************************)
\* ord(ch): Python orders one-character strings by code point.
CodePoint(ch) ==
    CASE ch = " "       -> 32
      [] ch = "a"       -> 97
      [] ch = "b"       -> 98
      [] ch = "e"       -> 101
      [] ch = "E_ACUTE" -> 233
      [] ch = "ACUTE"   -> 769
      [] ch = "ZWSP"    -> 8203
      [] ch = "BOM"     -> 65279

\* The characters ch of normalize_text(w) with ch.strip() non-empty.
WordChars(w) ==
    LET nw == normalize_text(w)
    IN  {nw[i] : i \in {j \in 1..Len(nw) : ~IsSpace(nw[j])}}

\* The set chars after the first k words of the outer loop.
RECURSIVE CollectChars(_, _)
CollectChars(words, k) ==
    IF k = 0 THEN {}
    ELSE CollectChars(words, k - 1) \cup WordChars(words[k])

\* sorted(chars)
RECURSIVE Sorted(_)
Sorted(S) ==
    IF S = {} THEN <<>>
    ELSE LET m == CHOOSE x \in S : \A y \in S : CodePoint(x) <= CodePoint(y)
         IN  <<m>> \o Sorted(S \ {m})

\* {c: i for i, c in enumerate(idx2char)}: a later index replaces an earlier.
EnumerateDict(idx2char) ==
    [c \in {idx2char[i] : i \in 1..Len(idx2char)} |->
        (CHOOSE i \in 1..Len(idx2char) :
            /\ idx2char[i] = c
            /\ \A j \in 1..Len(idx2char) : idx2char[j] = c => j <= i) - 1]

\* The distinct characters of s that are not in seen, in order of first
\* occurrence.
RECURSIVE FirstSeen(_, _)
FirstSeen(s, seen) ==
    IF s = <<>> THEN <<>>
    ELSE IF Head(s) \in seen \/ IsSpace(Head(s)) THEN FirstSeen(Tail(s), seen)
         ELSE <<Head(s)>> \o FirstSeen(Tail(s), seen \cup {Head(s)})

RECURSIVE Concat(_, _)
Concat(words, k) ==
    IF k = 0 THEN <<>> ELSE Concat(words, k - 1) \o normalize_text(words[k])

\* build_char_vocab with the characters kept in insertion order, not sorted.
build_char_vocab_unsorted(words) ==
    EnumerateDict(<<PAD, UNK>> \o FirstSeen(Concat(words, Len(words)), {}))

build_char_vocab(words) ==
    EnumerateDict(<<PAD, UNK>> \o Sorted(CollectChars(words, Len(words))))

\* vocab.get(ch, vocab[UNK])
VocabGet(vocab, ch) == IF ch \in DOMAIN vocab THEN vocab[ch] ELSE vocab[UNK]

\* encode_word without the [:MAX_WORD_LEN] slice.
encode_word_no_slice(word, vocab) ==
    LET w   == normalize_text(word)
        ids == [i \in 1..Len(w) |-> VocabGet(vocab, w[i])]
    IN  IF Len(ids) < MAX_WORD_LEN
        THEN ids \o [i \in 1..(MAX_WORD_LEN - Len(ids)) |-> vocab[PAD]]
        ELSE ids

encode_word(word, vocab) ==
    LET w   == normalize_text(word)
        cut == SubSeq(w, 1, Min(Len(w), MAX_WORD_LEN))
        ids == [i \in 1..Len(cut) |-> VocabGet(vocab, cut[i])]
    IN  IF Len(ids) < MAX_WORD_LEN
        THEN ids \o [i \in 1..(MAX_WORD_LEN - Len(ids)) |-> vocab[PAD]]
        ELSE ids

true_char_len(word) == Min(Len(normalize_text(word)), MAX_WORD_LEN)

\* NerModel.forward: lengths_safe = torch.clamp(lengths_flat, min=1), the
\* length the character encoder packs the word with.
lengths_safe(len) == Max(len, 1)

(***************************************************************************)
(* Inputs of build_char_vocab and encode_word.                             *)
(***************************************************************************)
MaxVocWords == 3
VocWordSet == { <<>>, <<"b">>, <<"b", " ", "a">>, <<"ZWSP", "a">>, <<"e", "ACUTE">> }
VocLists == SeqsUpTo(VocWordSet, MaxVocWords)

InitVoc == vWords = None /\ vVocab = None /\ vWords2 = None /\ vVocab2 = None

\* build_char_vocab on a reference word list.
BuildVocab ==
    /\ vWords = None
    /\ UNCHANGED <<svcVars, decVars, encVars, lmVars>>
    /\ \E words \in VocLists :
        /\ vWords' = [list |-> words]
        /\ vVocab' = build_char_vocab(words)
        /\ vWords2' = None
        /\ vVocab2' = None

\* build_char_vocab run again, on any list with the same distinct non-blank
\* characters (the same list, a reordering or a duplication of it included).
RebuildVocab ==
    /\ vWords # None
    /\ vWords2 = None
    /\ UNCHANGED <<svcVars, decVars, encVars, lmVars>>
    /\ \E words \in VocLists :
        /\ CollectChars(words, Len(words))
             = CollectChars(vWords.list, Len(vWords.list))
        /\ vWords2' = [list |-> words]
        /\ vVocab2' = build_char_vocab(words)
        /\ UNCHANGED <<vWords, vVocab>>

MaxPrefixLen == 2
MaxRunLen == 25
EncChars == {"a", "b", "e", "ACUTE", "ZWSP"}
\* A word: any short prefix followed by a run of one character, so that
\* words shorter than, as long as and longer than MAX_WORD_LEN occur.
EncWords ==
    {p \o [i \in 1..k |-> c] :
        p \in SeqsUpTo(EncChars, MaxPrefixLen), c \in EncChars, k \in 0..MaxRunLen}
EncVocabFiles == { <<>>, << <<"a">>, <<"e", "ACUTE">> >> }

InitEnc == eWord = None /\ eOut = None

\* One word encoded as ner() encodes each token: encode_word for the ids,
\* true_char_len for the length, clamped by NerModel.forward.
Encode ==
    /\ eWord = None
    /\ UNCHANGED <<svcVars, decVars, vocVars, lmVars>>
    /\ \E word \in EncWords, vf \in EncVocabFiles :
        LET vocab == build_char_vocab(vf)
        IN  /\ eWord' = [word |-> word, vocab |-> vocab]
            /\ eOut' = [ids      |-> encode_word(word, vocab),
                        true_len |-> true_char_len(word),
                        length   |-> lengths_safe(true_char_len(word))]

(***************************************************************************)
(* The NER service: load_artifacts at startup, /health, /api/ner.          *)
(***************************************************************************)
\* What the artifact files can hold.
ConfigFiles ==
    { [embedding_dim |-> 8, hidden_dim |-> 8, num_labels |-> 3],
      [embedding_dim |-> 8, hidden_dim |-> 8] }
Id2LabelFiles ==
    { [k \in {"0", "1", "2"} |->
          CASE k = "0" -> <<"O">>
            [] k = "1" -> <<"B", "-", "P">>
            [] k = "2" -> <<"I", "-", "P">>],
      [k \in {"1", "2"} |->
          CASE k = "1" -> <<"B", "-", "P">>
            [] k = "2" -> <<"I", "-", "L">>] }
VocabFiles == { << <<"a">> >>, << <<"ZWSP", "a">>, <<"b">> >> }

InitSvc ==
    /\ pc = "config"
    /\ cfg = None
    /\ id2label = None
    /\ char2idx = None
    /\ model = None
    /\ failedAt = "none"
    /\ resp = None
    /\ healthResp = None

\* An exception inside load_artifacts: startup() catches it and passes.
Raise(step) ==
    /\ pc' = "done"
    /\ failedAt' = step

\* with open(CONFIG_PATH) ...: cfg = json.load(f)      (cfg is a local)
LoadConfig ==
    /\ UNCHANGED <<decVars, encVars, vocVars, lmVars>>
    /\ pc = "config"
    /\ \/ /\ \E c \in ConfigFiles : cfg' = c
          /\ pc' = "id2label"
          /\ UNCHANGED failedAt
       \/ /\ Raise("config")
          /\ UNCHANGED cfg
    /\ UNCHANGED <<id2label, char2idx, model, resp, healthResp>>

\* with open(ID2LABEL_PATH) ...: id2label = json.load(f)
LoadId2Label ==
    /\ UNCHANGED <<decVars, encVars, vocVars, lmVars>>
    /\ pc = "id2label"
    /\ \/ /\ \E m \in Id2LabelFiles : id2label' = m
          /\ pc' = "vocab"
          /\ UNCHANGED failedAt
       \/ /\ Raise("id2label")
          /\ UNCHANGED id2label
    /\ UNCHANGED <<cfg, char2idx, model, resp, healthResp>>

\* with open(VOCAB_PATH) ...: vocab_words = list(json.load(f).keys());
\* char2idx = build_char_vocab(vocab_words)
LoadVocab ==
    /\ UNCHANGED <<decVars, encVars, vocVars, lmVars>>
    /\ pc = "vocab"
    /\ \/ /\ \E words \in VocabFiles : char2idx' = build_char_vocab(words)
          /\ pc' = "construct"
          /\ UNCHANGED failedAt
       \/ /\ Raise("vocab")
          /\ UNCHANGED char2idx
    /\ UNCHANGED <<cfg, id2label, model, resp, healthResp>>

\* model = NerModel(vocab_size=..., emb_dim=cfg["embedding_dim"], ...): a
\* KeyError when the config lacks a key; the global is assigned when the
\* constructor returns, with freshly initialised parameters.
ConstructModel ==
    /\ UNCHANGED <<decVars, encVars, vocVars, lmVars>>
    /\ pc = "construct"
    /\ \/ /\ {"embedding_dim", "hidden_dim", "num_labels"} \subseteq DOMAIN cfg
          /\ model' = [params |-> "init", mode |-> "train"]
          /\ pc' = "torch_load"
          /\ UNCHANGED failedAt
       \/ /\ ~({"embedding_dim", "hidden_dim", "num_labels"} \subseteq DOMAIN cfg)
          /\ Raise("construct")
          /\ UNCHANGED model
    /\ UNCHANGED <<cfg, id2label, char2idx, resp, healthResp>>

\* state = torch.load(MODEL_PATH, ...)
TorchLoad ==
    /\ UNCHANGED <<decVars, encVars, vocVars, lmVars>>
    /\ pc = "torch_load"
    /\ \/ /\ pc' = "load_state_dict"
          /\ UNCHANGED failedAt
       \/ Raise("torch_load")
    /\ UNCHANGED <<cfg, id2label, char2idx, model, resp, healthResp>>

\* model.load_state_dict(state, strict=True); model.eval()
LoadStateDict ==
    /\ UNCHANGED <<decVars, encVars, vocVars, lmVars>>
    /\ pc = "load_state_dict"
    /\ \/ /\ model' = [params |-> "trained", mode |-> "eval"]
          /\ pc' = "done"
          /\ UNCHANGED failedAt
       \/ /\ Raise("load_state_dict")
          \* the tensors that matched were copied before the error was raised
          /\ \E p \in {"init", "partial"} : model' = [model EXCEPT !.params = p]
    /\ UNCHANGED <<cfg, id2label, char2idx, resp, healthResp>>

\* GET /health, served once startup has returned.
health ==
    /\ UNCHANGED <<decVars, encVars, vocVars, lmVars>>
    /\ pc = "done"
    /\ healthResp' = [ok |-> TRUE, model_loaded |-> model # None]
    /\ UNCHANGED <<pc, cfg, id2label, char2idx, model, failedAt, resp>>

MaxReqLen == 3
ReqChars == {" ", "a", "ZWSP"}
ReqTexts == SeqsUpTo(ReqChars, MaxReqLen)
SvcScores == {70}

\* str(idx)
StrOfInt(i) == CASE i = 0 -> "0" [] i = 1 -> "1" [] i = 2 -> "2"

\* id2label.get(str(idx), "O")
LabelOf(idx) ==
    IF StrOfInt(idx) \in DOMAIN id2label THEN id2label[StrOfInt(idx)] ELSE <<"O">>

\* not inp.text
empty_text(text) == text = <<>>

\* The 503 guard with only the label map tested.
not_loaded_labels_only(m, i2l, c2i) == i2l = None

\* model is None or id2label is None or char2idx is None
not_loaded(m, i2l, c2i) == m = None \/ i2l = None \/ c2i = None

\* What model(x, lc, mask), softmax, argmax and max can return for n tokens:
\* a label id below num_labels and a score (in percent) per token.
ForwardOutputs(n) ==
    [ids : [1..n -> 0..(cfg.num_labels - 1)], scores : [1..n -> SvcScores]]

HttpError(code, text) ==
    [status |-> code, input |-> text, text |-> <<>>, entities |-> <<>>,
     forward |-> FALSE, params |-> "none"]

\* POST /api/ner: the responses the handler can give to inp.text = text.
ner(text) ==
    IF empty_text(text) THEN {HttpError(400, text)}
    ELSE IF not_loaded(model, id2label, char2idx) THEN {HttpError(503, text)}
    ELSE LET norm == normalize_text(text)
             ts   == ws_tokens_with_spans(norm)
             n    == Len(ts.tokens)
         IN  IF ts.tokens = <<>>
             THEN {[status |-> 200, input |-> text, text |-> norm,
                    entities |-> <<>>, forward |-> FALSE, params |-> "none"]}
             ELSE IF model = None \/ id2label = None \/ char2idx = None
             \* encode_word(w, None), model(...) and id2label.get raise a
             \* TypeError / AttributeError on None: an unhandled exception
             THEN {HttpError(500, text)}
             ELSE {[status   |-> 200,
                    input    |-> text,
                    text     |-> norm,
                    entities |-> decode_entities(ts.tokens, ts.spans,
                                    [k \in 1..n |-> LabelOf(out.ids[k])],
                                    out.scores),
                    forward  |-> TRUE,
                    params   |-> model.params] : out \in ForwardOutputs(n)}

\* A request to /api/ner, served once startup has returned.
Ner ==
    /\ UNCHANGED <<decVars, encVars, vocVars, lmVars>>
    /\ pc = "done"
    /\ \E text \in ReqTexts : \E r \in ner(text) : resp' = r
    /\ UNCHANGED <<pc, cfg, id2label, char2idx, model, failedAt, healthResp>>

(***************************************************************************)
(* The language-model service: /api/lm/complete.                           *)
(***************************************************************************)
MaxPromptLen == 2
MaxNewTokens == 3
BOS == 1
LmPieces == {2, 3}

\* nn.GRU over the embedded tokens x from the hidden state h0: the output at
\* the last position, and the returned hidden state, are a function of the
\* tokens h0 summarises followed by x.
gru(x, h0) == [context |-> h0 \o x, h |-> h0 \o x]

\* GRULanguageModel.forward(x): self.rnn(e) is called without an initial
\* hidden state, which nn.GRU takes as zeros.
GRULanguageModel_forward(x) == gru(x, <<>>)

InitLm ==
    /\ lmPc = "idle"
    /\ lmPrompt = <<>>
    /\ lmMax = 0
    /\ lmX = <<>>
    /\ lmH = None
    /\ lmGenerated = <<>>
    /\ lmCtx = <<>>

\* complete(), up to the loop: ids = [bos] + sp.encode(s); x = tensor(ids);
\* generated = []; h = None
LmComplete ==
    /\ UNCHANGED <<svcVars, decVars, encVars, vocVars>>
    /\ lmPc = "idle"
    /\ \E prompt \in SeqsUpTo(LmPieces, MaxPromptLen), m \in 0..MaxNewTokens :
        /\ lmPrompt' = prompt
        /\ lmMax' = m
        /\ lmX' = <<BOS>> \o prompt
    /\ lmH' = None
    /\ lmGenerated' = <<>>
    /\ lmCtx' = <<>>
    /\ lmPc' = "loop"

\* One iteration of for _ in range(max_new_tokens): logits, h = model(x);
\* next_id sampled from the top-k of the last position; x = [[next_id]].
\* lmCtx records the tokens each sampled distribution was conditioned on.
LmStep ==
    /\ UNCHANGED <<svcVars, decVars, encVars, vocVars>>
    /\ lmPc = "loop"
    /\ Len(lmGenerated) < lmMax
    /\ LET out == GRULanguageModel_forward(lmX)
       IN  /\ lmH' = [h |-> out.h]
           /\ lmCtx' = Append(lmCtx, out.context)
           /\ \E next_id \in LmPieces :
                /\ lmGenerated' = Append(lmGenerated, next_id)
                /\ lmX' = <<next_id>>
    /\ UNCHANGED <<lmPc, lmPrompt, lmMax>>

\* The loop is over: text_out = sp.decode(generated); return.
LmReturn ==
    /\ UNCHANGED <<svcVars, decVars, encVars, vocVars>>
    /\ lmPc = "loop"
    /\ Len(lmGenerated) >= lmMax
    /\ lmPc' = "done"
    /\ UNCHANGED <<lmPrompt, lmMax, lmX, lmH, lmGenerated, lmCtx>>

(***************************************************************************)
(* Specifications.                                                         *)
(***************************************************************************)
Init == InitSvc /\ InitDec /\ InitEnc /\ InitVoc /\ InitLm

\* The NER service.
Next ==
    \/ LoadConfig
    \/ LoadId2Label
    \/ LoadVocab
    \/ ConstructModel
    \/ TorchLoad
    \/ LoadStateDict
    \/ health
    \/ Ner
Spec == Init /\ [][Next]_vars

\* decode_entities on the tokens of any text with any labels and scores.
NextDecode == Decode
SpecDecode == Init /\ [][NextDecode]_vars

\* encode_word and true_char_len on any word.
NextEncode == Encode
SpecEncode == Init /\ [][NextEncode]_vars

\* build_char_vocab on any reference word list, and again.
NextVocab == BuildVocab \/ RebuildVocab
SpecVocab == Init /\ [][NextVocab]_vars

\* The completion loop of the language-model service.
NextComplete == LmComplete \/ LmStep \/ LmReturn
SpecLM == Init /\ [][NextComplete]_vars

(***************************************************************************)
(* Properties of decode_entities (SpecDecode).                             *)
(***************************************************************************)
\* tokens[f..l] joined by single spaces.
RECURSIVE Join(_, _, _)
Join(tokens, f, l) ==
    IF f > l THEN <<>>
    ELSE IF f = l THEN tokens[f]
         ELSE tokens[f] \o <<" ">> \o Join(tokens, f + 1, l)

\* A label read as the BIO scheme reads it: O, B-T, I-T, or malformed.
LabelKind(label) ==
    IF label = <<"O">> THEN "O"
    ELSE IF Len(label) >= 2 /\ label[1] = "B" /\ label[2] = "-" THEN "B"
    ELSE IF Len(label) >= 2 /\ label[1] = "I" /\ label[2] = "-" THEN "I"
    ELSE "malformed"
LabelType(label) == SubSeq(label, 3, Len(label))
WellFormed(labels) ==
    \A i \in 1..Len(labels) : LabelKind(labels[i]) \in {"O", "B", "I"}

\* The two-state machine of the design: OUTSIDE, or ACCUMULATING a span of
\* tokens first..last of one type.  Emitted spans are [type, first, last].
Outside == [on |-> FALSE]
RefFlush(st) ==
    IF st.acc.on
    THEN [out |-> Append(st.out, [type |-> st.acc.type, first |-> st.acc.first,
                                  last |-> st.acc.last]),
          acc |-> Outside]
    ELSE st
RefBegin(st, type, i) ==
    [out |-> RefFlush(st).out,
     acc |-> [on |-> TRUE, type |-> type, first |-> i, last |-> i]]
RefStep(st, label, i) ==
    CASE LabelKind(label) = "O" -> RefFlush(st)
      [] LabelKind(label) = "B" -> RefBegin(st, LabelType(label), i)
      [] LabelKind(label) = "I" ->
            IF st.acc.on /\ st.acc.type = LabelType(label)
            THEN [st EXCEPT !.acc.last = i]
            ELSE RefBegin(st, LabelType(label), i)
RECURSIVE RefRun(_, _)
RefRun(labels, n) ==
    IF n = 0 THEN [out |-> <<>>, acc |-> Outside]
    ELSE RefStep(RefRun(labels, n - 1), labels[n], n)
RefSpans(labels) == RefFlush(RefRun(labels, Len(labels))).out

\* Entity e is the span r of the input: text, label, mean score, offsets.
IsSpanOf(e, r, in) ==
    /\ e.text = Join(in.tokens, r.first, r.last)
    /\ e.label = r.type
    /\ e.score.num * (r.last - r.first + 1)
         = SumSeq(SubSeq(in.scores, r.first, r.last)) * e.score.den
    /\ e.start = in.spans[r.first][1]
    /\ e.end = in.spans[r.last][2]

\* C2: on well-formed labels decode_entities returns exactly the spans of
\* the two-state machine (O flushes, B-T flushes and begins, I-T appends to
\* a span of type T and otherwise begins one, the end flushes), each with
\* its tokens joined by single spaces, its type, the mean of its scores and
\* the offsets of its first and last token.
C2_DecodeIsStateMachine ==
    (dIn # None /\ WellFormed(dIn.labels)) =>
        LET ref == RefSpans(dIn.labels)
        IN  /\ Len(dOut.entities) = Len(ref)
            /\ \A k \in 1..Len(ref) : IsSpanOf(dOut.entities[k], ref[k], dIn)

\* A dangling I-L begins a span, a second I-L extends it, and a B-L of the
\* same type closes it and begins another.
C2_Witness ==
    /\ dIn # None
    /\ dIn.labels = << <<"I", "-", "L">>, <<"I", "-", "L">>, <<"B", "-", "L">> >>
    /\ dIn.scores = <<60, 90, 90>>
    /\ Len(dOut.entities) = 2
    /\ dOut.entities[1].text = <<"a", " ", "a">>
    /\ dOut.entities[1].score = [num |-> 150, den |-> 2]

\* C3: the entities of a tokenized text are strictly increasing in start
\* offset and do not overlap: start < end <= next start.
C3_SpansOrdered ==
    dIn # None =>
        LET es == dOut.entities
        IN  \A k \in 1..Len(es) :
                /\ es[k].start < es[k].end
                /\ k < Len(es) => es[k].end <= es[k + 1].start

\* Three tokens, an O between two entities the second of which continues
\* the first one's type.
C3_Witness ==
    /\ dIn # None
    /\ dIn.labels = << <<"B", "-", "P">>, <<"O">>, <<"I", "-", "P">> >>
    /\ Len(dOut.entities) = 2
    /\ dOut.entities[1].end < dOut.entities[2].start

\* C4: a token whose label is malformed (not O, not B-T, not I-T) always
\* begins a new span with that token alone: an entity starts at its offset.
C4_MalformedStartsSpan ==
    dIn # None =>
        \A i \in 1..Len(dIn.labels) :
            LabelKind(dIn.labels[i]) = "malformed" =>
                \E k \in 1..Len(dOut.entities) :
                    dOut.entities[k].start = dIn.spans[i][1]

\* Entity e covers token i.
Covers(e, i, in) == e.start <= in.spans[i][1] /\ in.spans[i][2] <= e.end

\* The tokens at which the loop began a new span.
Begins(in) ==
    {i \in 1..Len(in.labels) :
        /\ in.labels[i] # <<"O">>
        /\ starts_new(
              decode_loop(in.tokens, in.spans, in.labels, in.scores, i - 1).current,
              split_label(in.labels[i]).prefix, split_label(in.labels[i]).tag)}

\* C9: after the final flush every token not labelled O is in exactly one
\* entity and every token labelled O in none, every entity is a run of
\* consecutive tokens, and there are as many entities as spans begun.
C9_TokenConservation ==
    dIn # None =>
        LET es == dOut.entities
            n  == Len(dIn.tokens)
        IN  /\ \A i \in 1..n :
                  Cardinality({k \in 1..Len(es) : Covers(es[k], i, dIn)})
                    = IF dIn.labels[i] = <<"O">> THEN 0 ELSE 1
            /\ \A k \in 1..Len(es) :
                  \E f \in 1..n, l \in 1..n :
                      /\ f <= l
                      /\ es[k].start = dIn.spans[f][1]
                      /\ es[k].end = dIn.spans[l][2]
                      /\ es[k].text = Join(dIn.tokens, f, l)
            /\ Len(es) = Cardinality(Begins(dIn))

\* The last token is inside an entity, which only the final flush emits.
C9_Witness ==
    /\ dIn # None
    /\ Len(dIn.tokens) = 3
    /\ dIn.labels = << <<"P">>, <<"O">>, <<"X", "-", "P">> >>
    /\ Len(dOut.entities) = 2
    /\ dOut.entities[2].end = dIn.spans[3][2]

(***************************************************************************)
(* Properties of encode_word and true_char_len (SpecEncode).               *)
(***************************************************************************)
\* The ids of an encoded word are PAD exactly from 0-based position len on.
PadExactlyFrom(ids, vocab, len) ==
    \A i \in 1..Len(ids) : (ids[i] = vocab[PAD]) <=> (i - 1 >= len)

\* C7 as stated: the ids have length MAX_WORD_LEN, the true length is
\* min(normalized length, MAX_WORD_LEN) floored at 1, within 1..MAX_WORD_LEN,
\* and PAD ids are exactly at the positions >= that true length.
C7_PadFromFlooredLength ==
    eOut # None =>
        /\ Len(eOut.ids) = MAX_WORD_LEN
        /\ eOut.length
             = Max(1, Min(Len(normalize_text(eWord.word)), MAX_WORD_LEN))
        /\ eOut.length \in 1..MAX_WORD_LEN
        /\ PadExactlyFrom(eOut.ids, eWord.vocab, eOut.length)

\* C7 amended: the ids have length MAX_WORD_LEN, the length the encoder is
\* given is min(normalized length, MAX_WORD_LEN) floored at 1, and PAD ids
\* are exactly at the positions >= min(normalized length, MAX_WORD_LEN),
\* the length before the floor; so a word that normalizes to nothing is all
\* PAD, position 0 included, though its floored length is 1.
C7_PadFromUnflooredLength ==
    eOut # None =>
        LET nlen == Len(normalize_text(eWord.word))
        IN  /\ Len(eOut.ids) = MAX_WORD_LEN
            /\ eOut.length = Max(1, Min(nlen, MAX_WORD_LEN))
            /\ eOut.length \in 1..MAX_WORD_LEN
            /\ eOut.true_len = Min(nlen, MAX_WORD_LEN)
            /\ PadExactlyFrom(eOut.ids, eWord.vocab, Min(nlen, MAX_WORD_LEN))
            /\ nlen = 0 => \A i \in 1..MAX_WORD_LEN : eOut.ids[i] = eWord.vocab[PAD]
            /\ nlen > 0 => PadExactlyFrom(eOut.ids, eWord.vocab, eOut.length)

\* A word longer than MAX_WORD_LEN after normalization, with a character the
\* vocabulary knows and one it does not.
C7_Witness ==
    /\ eOut # None
    /\ Len(normalize_text(eWord.word)) > MAX_WORD_LEN
    /\ Len(eWord.word) > Len(normalize_text(eWord.word))
    /\ "a" \in DOMAIN eWord.vocab
    /\ \E i, j \in 1..MAX_WORD_LEN :
          /\ eOut.ids[i] = eWord.vocab[UNK]
          /\ eOut.ids[j] = eWord.vocab["a"]

(***************************************************************************)
(* Properties of build_char_vocab (SpecVocab).                             *)
(***************************************************************************)
\* The distinct non-blank characters of the normalized words of a list.
DistinctChars(words) ==
    UNION { {normalize_text(words[k])[i] : i \in 1..Len(normalize_text(words[k]))}
            : k \in 1..Len(words) } \ {" "}

\* C8: PAD is 0, UNK is 1, the distinct non-blank characters get the ids
\* 2..N injectively in sorted order, and a second run on any list with the
\* same characters (the same list, reordered or with duplicates) returns
\* the identical assignment.
C8_VocabDeterministic ==
    vVocab # None =>
        LET chars == DistinctChars(vWords.list)
        IN  /\ DOMAIN vVocab = {PAD, UNK} \cup chars
            /\ vVocab[PAD] = 0
            /\ vVocab[UNK] = 1
            /\ \A c \in chars : vVocab[c] \in 2..(Cardinality(chars) + 1)
            /\ \A c, d \in chars :
                  CodePoint(c) < CodePoint(d) => vVocab[c] < vVocab[d]
            /\ vVocab2 # None => vVocab2 = vVocab

\* A second run on a different list with the same characters, at least
\* two of them.
C8_Witness ==
    /\ vVocab # None
    /\ vVocab2 # None
    /\ vWords2.list # vWords.list
    /\ Len(vWords2.list) # Len(vWords.list)
    /\ {"a", "b"} \subseteq DOMAIN vVocab
    /\ vVocab2["b"] = 3

(***************************************************************************)
(* Properties of the NER service (Spec).                                   *)
(***************************************************************************)
\* C1: when load_artifacts failed at any step, /health reports
\* model_loaded = false and every request with non-empty text gets the 503
\* error without a forward pass.
C1_FailedLoadNotLoaded ==
    (pc = "done" /\ failedAt # "none") =>
        /\ healthResp # None => ~healthResp.model_loaded
        /\ (resp # None /\ resp.input # <<>>) =>
              (resp.status = 503 /\ ~resp.forward)

\* Every character of the text is whitespace or removed by normalization.
YieldsNoTokens(text) ==
    \A i \in 1..Len(text) : text[i] \in {" ", "ZWSP", "BOM"}

\* load_artifacts ran to its end.
LoadSucceeded == pc = "done" /\ failedAt = "none"

\* What the 503 guard of ner() tests; /health reports model # None, which
\* is the same in every state startup can leave.
Loaded == model # None /\ id2label # None /\ char2idx # None

\* C5 as stated: with the model loaded, a request whose text yields no
\* tokens (the empty string included) succeeds with entities = [] and no
\* forward pass.
C5_NoTokensEmptyList ==
    (resp # None /\ LoadSucceeded /\ YieldsNoTokens(resp.input)) =>
        (resp.status = 200 /\ resp.entities = <<>> /\ ~resp.forward)

\* C5 amended: with the model loaded, a request whose text is not empty and
\* yields no tokens succeeds with entities = [] and no forward pass; the
\* empty string gets the 400 error, also without a forward pass.
C5_NonEmptyNoTokensEmptyList ==
    (resp # None /\ LoadSucceeded /\ YieldsNoTokens(resp.input)) =>
        /\ ~resp.forward
        /\ resp.entities = <<>>
        /\ resp.input # <<>> => resp.status = 200
        /\ resp.input = <<>> => resp.status = 400

\* A text of a zero-width space and a blank, answered with an empty list.
C5_Witness ==
    /\ resp # None
    /\ LoadSucceeded
    /\ model.params = "trained"
    /\ resp.input = <<"ZWSP", " ">>
    /\ resp.status = 200
    /\ resp.text = <<" ">>
    /\ resp.entities = <<>>

\* C6 as stated: while the artifacts are not loaded every request, whatever
\* its text, gets the 503 error.
C6_NotLoadedAlways503 ==
    (resp # None /\ ~Loaded) => resp.status = 503

\* C6 amended: while the service is in the not-loaded state (model,
\* id2label or char2idx is None) every request with non-empty text gets the
\* 503 error and no forward pass; a request with empty text gets the 400
\* error.
C6_NotLoadedNonEmpty503 ==
    (resp # None /\ ~Loaded) =>
        /\ ~resp.forward
        /\ resp.input # <<>> => resp.status = 503
        /\ resp.input = <<>> => resp.status = 400

\* The vocabulary could not be read: the label map is loaded, the model is
\* not, and a request with a token is refused.
C6_Witness ==
    /\ resp # None
    /\ failedAt = "vocab"
    /\ id2label # None
    /\ model = None
    /\ resp.input = <<"a">>
    /\ resp.status = 503

(***************************************************************************)
(* Properties of the completion loop (SpecLM).                             *)
(***************************************************************************)
\* C10: the distribution token i is sampled from is conditioned on BOS, the
\* prompt and the i-1 tokens generated before it, and the loop ends with
\* exactly max_new_tokens tokens.
C10_Autoregressive ==
    /\ \A i \in 1..Len(lmCtx) :
          lmCtx[i] = <<BOS>> \o lmPrompt \o SubSeq(lmGenerated, 1, i - 1)
    /\ lmPc = "done" => Len(lmGenerated) = lmMax

====
